---- MODULE Spec2Model ----
(***************************************************************************)
(* A model of PittAPI/course.py: the validators, the three query          *)
(* functions, the subject-, course- and section-level extraction passes   *)
(* over the children of the results container, the section record parser  *)
(* and the lazily fetched extra details of a section.                      *)
(*                                                                         *)
(* Python values are modelled as follows.  A str is a TLA+ string (TLC     *)
(* evaluates Len, \o and SubSeq on strings).  An argument that may be an   *)
(* int or a str is a record [int |-> n] or [str |-> s].  A computation     *)
(* that may raise yields Ok(v) or Raise(type, msg).  None is NoneVal.      *)
(***************************************************************************)
EXTENDS Integers, Sequences, FiniteSets, TLC

VARIABLES
    fn,         \* the name of the function the client called last
    arg,        \* the arguments of that call
    ret,        \* its outcome: Ok(value) or Raise(type, msg)
    net,        \* the network requests that call issued, in order
    subject,    \* the PittSubject the client holds (its _courses), or NoneVal
    section,    \* the PittSection the client holds (url, _extra), or NoneVal
    calls       \* how many calls the client has made

vars == <<fn, arg, ret, net, subject, section, calls>>

----------------------------------------------------------------------------
(* Bounds of the model *)

MaxTermLen == 5
MaxCourseLen == 5
MaxInt == 10010
MaxNodes == 5
MaxOddNodes == 3
MaxAccesses == 3

----------------------------------------------------------------------------
(* Python values *)

NoneVal == [none |-> TRUE]
Ok(v) == [ok |-> TRUE, val |-> v]
Raise(type, msg) == [ok |-> FALSE, err |-> type, msg |-> msg]

IntArg(n) == [int |-> n]
StrArg(s) == [str |-> s]
IsInt(x) == "int" \in DOMAIN x
IsStr(x) == "str" \in DOMAIN x

DigitChars == <<"0", "1", "2", "3", "4", "5", "6", "7", "8", "9">>
IsDigit(c) == \E i \in 1..10 : DigitChars[i] = c

\* str(n) for an int n: its decimal representation
RECURSIVE str(_)
str(n) ==
    IF n < 0 THEN "-" \o str(-n)
    ELSE IF n < 10 THEN DigitChars[n + 1]
    ELSE str(n \div 10) \o DigitChars[(n % 10) + 1]

Char(s, i) == SubSeq(s, i, i)

\* s * n for a str s
RECURSIVE Repeat(_, _)
Repeat(s, n) == IF n <= 0 THEN "" ELSE s \o Repeat(s, n - 1)

\* The least index >= i at which sep occurs in s, or 0
RECURSIVE find(_, _, _)
find(s, sep, i) ==
    IF i + Len(sep) - 1 > Len(s) THEN 0
    ELSE IF SubSeq(s, i, i + Len(sep) - 1) = sep THEN i
    ELSE find(s, sep, i + 1)

\* s.split(sep): the pieces of s between the occurrences of sep, left to right
RECURSIVE split(_, _)
split(s, sep) ==
    LET i == find(s, sep, 1)
    IN  IF i = 0 THEN <<s>>
        ELSE <<SubSeq(s, 1, i - 1)>> \o split(SubSeq(s, i + Len(sep), Len(s)), sep)

LowerChars == <<"a", "b", "c", "d", "e", "f", "g", "h", "i", "j", "k", "l", "m",
                "n", "o", "p", "q", "r", "s", "t", "u", "v", "w", "x", "y", "z">>
UpperChars == <<"A", "B", "C", "D", "E", "F", "G", "H", "I", "J", "K", "L", "M",
                "N", "O", "P", "Q", "R", "S", "T", "U", "V", "W", "X", "Y", "Z">>

\* s[a:b] for a str s and 0 <= a <= b
slice(s, a, b) == SubSeq(s, a + 1, IF b < Len(s) THEN b ELSE Len(s))

\* xs[i] for a list xs and i >= 0
index(xs, i) ==
    IF i + 1 <= Len(xs) THEN Ok(xs[i + 1])
    ELSE Raise("IndexError", "list index out of range")

Whitespace == {" ", "\n", "\t", "\r"}

\* s.strip()
RECURSIVE strip(_)
strip(s) ==
    IF Len(s) = 0 THEN s
    ELSE IF Char(s, 1) \in Whitespace THEN strip(SubSeq(s, 2, Len(s)))
    ELSE IF Char(s, Len(s)) \in Whitespace THEN strip(SubSeq(s, 1, Len(s) - 1))
    ELSE s

\* int(s) for a str s of decimal digits
RECURSIVE int(_)
int(s) ==
    IF Len(s) = 0 THEN 0
    ELSE 10 * int(SubSeq(s, 1, Len(s) - 1))
         + ((CHOOSE i \in 1..10 : DigitChars[i] = Char(s, Len(s))) - 1)

AllDigits(s) == \A i \in 1..Len(s) : IsDigit(Char(s, i))

\* s.upper()
RECURSIVE upper(_)
upper(s) ==
    IF Len(s) = 0 THEN ""
    ELSE LET c == Char(s, 1)
             u == IF \E i \in 1..26 : LowerChars[i] = c
                  THEN UpperChars[CHOOSE i \in 1..26 : LowerChars[i] = c]
                  ELSE c
         IN  u \o upper(SubSeq(s, 2, Len(s)))

----------------------------------------------------------------------------
(* Validators *)

SUBJECTS ==
    {"ADMJ", "ADMPS", "AFRCNA", "AFROTC", "ANTH", "ARABIC", "ARTSC", "ASL", "ASTRON", "ATHLTR", "BACC", "BCHS",
     "BECN", "BFAE", "BFIN", "BHRM", "BIND", "BIOENG", "BIOETH", "BIOINF", "BIOSC", "BIOST", "BMIS", "BMKT",
     "BOAH", "BORG", "BQOM", "BSEO", "BSPP", "BUS", "BUSACC", "BUSADM", "BUSBIS", "BUSECN", "BUSENV", "BUSERV",
     "BUSFIN", "BUSHRM", "BUSMKT", "BUSORG", "BUSQOM", "BUSSCM", "BUSSPP", "CDACCT", "CDENT", "CEE", "CGS",
     "CHE", "CHEM", "CHIN", "CLASS", "CLRES", "CLST", "CMME", "CMMUSIC", "CMPBIO", "CMPINF", "COE", "COEA",
     "COEE", "COMMRC", "CS", "CSD", "DENHYG", "DENT", "DIASCI", "DMED", "DSANE", "DUPOSC", "EAS", "ECE", "ECON",
     "EDUC", "EM", "ENDOD", "ENGCMP", "ENGFLM", "ENGLIT", "ENGR", "ENGSCI", "ENGWRT", "ENRES", "EOH", "EPIDEM",
     "FACDEV", "FILMG", "FILMST", "FP", "FR", "FTADMA", "FTDA", "FTDB", "FTDC", "FTDJ", "FTDR", "GEOL", "GER",
     "GERON", "GREEK", "GREEKM", "GSWS", "HAA", "HEBREW", "HIM", "HINDI", "HIST", "HONORS", "HPA", "HPM", "HPS",
     "HRS", "HUGEN", "IDM", "IE", "IL", "IMB", "INFSCI", "INTBP", "IRISH", "ISB", "ISSP", "ITAL", "JPNSE", "JS",
     "KOREAN", "LATIN", "LAW", "LCTL", "LDRSHP", "LEGLST", "LING", "LIS", "LSAP", "MATH", "ME", "MED", "MEDEDU",
     "MEMS", "MILS", "MOLBPH", "MSBMS", "MSCBIO", "MSCBMP", "MSCMP", "MSE", "MSMBPH", "MSMGDB", "MSMI", "MSMPHL",
     "MSMVM", "MSNBIO", "MUSIC", "NEURO", "NPHS", "NROSCI", "NUR", "NURCNS", "NURNM", "NURNP", "NURSAN", "NURSP",
     "NUTR", "ODO", "ORBIOL", "ORSUR", "OT", "PAS", "PEDC", "PEDENT", "PEDS", "PERIO", "PERS", "PETE", "PHARM",
     "PHIL", "PHYS", "PIA", "POLISH", "PORT", "PROSTH", "PS", "PSY", "PSYC", "PSYED", "PT", "PUBHLT", "PUBSRV",
     "PWEA", "QUECH", "REHSCI", "REL", "RELGST", "RESTD", "RUSS", "SA", "SERCRO", "SLAV", "SLOVAK", "SOC",
     "SOCWRK", "SPAN", "STAT", "SWAHIL", "SWBEH", "SWCED", "SWCOSA", "SWE", "SWGEN", "SWINT", "SWRES", "SWWEL",
     "TELCOM", "THEA", "TURKSH", "UKRAIN", "URBNST", "VIET"}

\* _validate_subject(subject)
_validate_subject(s) ==
    LET u == upper(s)
    IN  IF u \in SUBJECTS THEN Ok(u)
        ELSE Raise("ValueError", "Subject entered isn't a valid Pitt subject.")

\* re.compile('2\d\d[147]').match(t): the pattern matches at the start of t;
\* nothing anchors its end
valid_terms_match(t) ==
    /\ Len(t) >= 4
    /\ Char(t, 1) = "2"
    /\ IsDigit(Char(t, 2))
    /\ IsDigit(Char(t, 3))
    /\ Char(t, 4) \in {"1", "4", "7"}

\* _validate_term(term)
_validate_term(term) ==
    LET t == IF IsInt(term) THEN str(term.int) ELSE term.str
    IN  IF valid_terms_match(t) THEN Ok(t)
        ELSE Raise("ValueError", "Term entered isn't a valid Pitt term.")

\* A slip in _validate_course: the bound on the length off by one
validate_course_off_by_one(course) ==
    LET c == IF IsInt(course) THEN str(course.int) ELSE course.str
        course_length == Len(c)
    IN  IF course_length < 4 THEN Ok(Repeat("0", 3 - course_length) \o c)
        ELSE IF course_length > 5 THEN Raise("ValueError", "Invalid course number.")
        ELSE Ok(c)

\* _validate_course(course)
_validate_course(course) ==
    LET c == IF IsInt(course) THEN str(course.int) ELSE course.str
        course_length == Len(c)
    IN  IF course_length < 4 THEN Ok(Repeat("0", 4 - course_length) \o c)
        ELSE IF course_length > 4 THEN Raise("ValueError", "Invalid course number.")
        ELSE Ok(c)

----------------------------------------------------------------------------
(* The record of a section: PittSection.__init__ on the lines of a link node *)

\* extract = lambda s: s.split(': ')[1]
extract(s) == index(split(s, ": "), 1)

\* extract(class_data[i])
extract_line(class_data, i) ==
    IF i + 1 <= Len(class_data) THEN extract(class_data[i + 1])
    ELSE Raise("IndexError", "list index out of range")

IsLeap(y) == (y % 4 = 0 /\ y % 100 # 0) \/ y % 400 = 0
DaysInMonth(y, m) ==
    IF m = 2 THEN (IF IsLeap(y) THEN 29 ELSE 28)
    ELSE IF m \in {4, 6, 9, 11} THEN 30 ELSE 31

\* The directives of the format: %m is 1[0-2]|0[1-9]|[1-9], %d is
\* 3[01]|[12]\d|0[1-9]|[1-9]| [1-9], %Y is \d\d\d\d
MatchesMonth(s) == Len(s) \in 1..2 /\ AllDigits(s) /\ int(s) \in 1..12
MatchesDay(s) ==
    \/ Len(s) \in 1..2 /\ AllDigits(s) /\ int(s) \in 1..31
    \/ Len(s) = 2 /\ Char(s, 1) = " " /\ IsDigit(Char(s, 2)) /\ Char(s, 2) # "0"
MatchesYear(s) == Len(s) = 4 /\ AllDigits(s)

\* datetime.strptime(s, '%m/%d/%Y')
strptime(s) ==
    LET p == split(s, "/")
    IN  IF Len(p) # 3 \/ ~MatchesMonth(p[1]) \/ ~MatchesDay(p[2]) \/ ~MatchesYear(p[3])
        THEN Raise("ValueError", "time data does not match format '%m/%d/%Y'")
        ELSE LET m == int(p[1])
                 d == int(strip(p[2]))
                 y == int(p[3])
             IN  IF y < 1 THEN Raise("ValueError", "year is out of range")
                 ELSE IF d > DaysInMonth(y, m)
                 THEN Raise("ValueError", "day is out of range for month")
                 ELSE Ok([year |-> y, month |-> m, day |-> d])

\* A slip in the chunking of the day string: chunks of one character
chunks_of_one(days) == [i \in 1..Len(days) |-> SubSeq(days, i, i)]

\* [days[i * 2:(i * 2) + 2] for i in range(len(days) // 2)]
day_chunks(days) ==
    [i \in 1..(Len(days) \div 2) |-> slice(days, (i - 1) * 2, ((i - 1) * 2) + 2)]

\* The two names a list is unpacked into
unpack2(xs) ==
    IF Len(xs) < 2
    THEN Raise("ValueError", "not enough values to unpack (expected 2, got 1)")
    ELSE IF Len(xs) > 2
    THEN Raise("ValueError", "too many values to unpack (expected 2)")
    ELSE Ok(xs)

\* days_times = days_times.split(' - '); self.days, times = days_times[0].split(' ');
\* self.days = [...]; self.times = [times] + [days_times[1]]
split_days_times(dt, dt0) ==
    IF ~dt0.ok THEN dt0
    ELSE IF Len(dt) < 2 THEN Raise("IndexError", "list index out of range")
    ELSE Ok([days |-> day_chunks(dt0.val[1]), times |-> <<dt0.val[2]>> \o <<dt[2]>>])

\* self.days and self.times from the days/times field after its label
days_and_times(days_times) ==
    IF ~days_times.ok THEN days_times
    ELSE IF days_times.val = "TBA" THEN Ok([days |-> NoneVal, times |-> NoneVal])
    ELSE split_days_times(split(days_times.val, " - "),
                          unpack2(split(split(days_times.val, " - ")[1], " ")))

\* class_info = extract(class_data[0]).split(' ')
class_info_of(l0) == IF l0.ok THEN Ok(split(l0.val, " ")) ELSE l0

\* self.section, self.section_type = class_info[0].split('-')
section_and_type(class_info) ==
    IF class_info.ok THEN unpack2(split(class_info.val[1], "-")) ELSE class_info

\* self.number = class_info[1][1:6]
class_number(class_info) ==
    IF ~class_info.ok THEN class_info
    ELSE IF Len(class_info.val) < 2 THEN Raise("IndexError", "list index out of range")
    ELSE Ok(slice(class_info.val[2], 1, 6))

\* date = extract(class_data[5]).split(' - ')
date_of(l5) == IF l5.ok THEN Ok(split(l5.val, " - ")) ELSE l5

\* self.start_date = datetime.strptime(date[0], '%m/%d/%Y')
start_date_of(date) == IF date.ok THEN strptime(date.val[1]) ELSE date

\* self.end_date = datetime.strptime(date[1], '%m/%d/%Y')
end_date_of(date) ==
    IF ~date.ok THEN date
    ELSE IF Len(date.val) < 2 THEN Raise("IndexError", "list index out of range")
    ELSE strptime(date.val[2])

\* The outcome of statements run in order: what the first one that raises
\* raised, or the fields they set
first_raise(st, number, dt, room, instructor, start_date, end_date) ==
    IF ~st.ok THEN st
    ELSE IF ~number.ok THEN number
    ELSE IF ~dt.ok THEN dt
    ELSE IF ~room.ok THEN room
    ELSE IF ~instructor.ok THEN instructor
    ELSE IF ~start_date.ok THEN start_date
    ELSE IF ~end_date.ok THEN end_date
    ELSE Ok([section |-> st.val[1],
             section_type |-> st.val[2],
             number |-> number.val,
             days |-> dt.val.days,
             times |-> dt.val.times,
             room |-> room.val,
             instructor |-> instructor.val,
             start_date |-> start_date.val,
             end_date |-> end_date.val])

\* The fields PittSection.__init__ (and, in the same words, the section-level
\* parse_webpage) sets from class_data, statement by statement
section_fields(class_data) ==
    first_raise(section_and_type(class_info_of(extract_line(class_data, 0))),
                class_number(class_info_of(extract_line(class_data, 0))),
                days_and_times(extract_line(class_data, 2)),
                extract_line(class_data, 3),
                extract_line(class_data, 4),
                start_date_of(date_of(extract_line(class_data, 5))),
                end_date_of(date_of(extract_line(class_data, 5))))

\* The section a record makes: its fields, its url, the cache of its extra details
new_section(f, class_section_url, extra) ==
    IF ~f.ok THEN f
    ELSE Ok([fields |-> f.val, url |-> class_section_url, _extra |-> extra,
             _subject |-> NoneVal, _course_number |-> NoneVal])

\* PittSection(parent, course, class_section_url, class_data, extra=extra):
\* the fields of the record, the url and the cache of the extra details
PittSection(class_section_url, class_data, extra) ==
    new_section(section_fields(class_data), class_section_url, extra)

----------------------------------------------------------------------------
(* The parsed page: the children of the parent of the primary-head div *)

\* A NavigableString, a Tag with a class attribute, a Tag with an href only
TextNode(text) == [tag |-> FALSE, attrs |-> {}, class |-> "", href |-> "", text |-> text]
ClassTag(class, text) ==
    [tag |-> TRUE, attrs |-> {"class"}, class |-> class, href |-> "", text |-> text]
LinkTag(href, text) ==
    [tag |-> TRUE, attrs |-> {"href"}, class |-> "", href |-> href, text |-> text]
BareTag(text) == [tag |-> TRUE, attrs |-> {}, class |-> "", href |-> "", text |-> text]

\* child != i for a str i: a Tag never equals a str
NodeNeStr(child, i) == child.tag \/ child.text # i

\* any(child != i for i in ['\n', ' '])
not_blank(child) == \E i \in {"\n", " "} : NodeNeStr(child, i)

\* soup.find('div', {'class': 'primary-head'}).parent.contents: `doc` is the
\* children of the results container, the primary-head divs among them; a
\* page without such a div has find return None
contents_of(doc) ==
    IF \E i \in 1..Len(doc) : doc[i].tag /\ doc[i].class = "primary-head" THEN Ok(doc)
    ELSE Raise("AttributeError", "'NoneType' object has no attribute 'parent'")

\* The course of a number in _courses (a dict, in insertion order)
HasCourse(courses, number) == \E k \in 1..Len(courses) : courses[k].number = number
CourseAt(courses, number) == CHOOSE k \in 1..Len(courses) : courses[k].number = number

\* PittCourse.append(section) on the course `number` of _courses
course_append(courses, number, sec) ==
    [courses EXCEPT ![CourseAt(courses, number)].sections = Append(@, sec)]

\* The state of the subject-level loop: self._courses and the current course
ScanState(courses, course) == Ok([courses |-> courses, course |-> course])

\* A slip in the subject-level pass: the section goes to the course created
\* last, not to the current one
append_to_last_created(courses, course, sec) ==
    IF course = NoneVal
    THEN Raise("AttributeError", "'NoneType' object has no attribute 'append'")
    ELSE IF ~sec.ok THEN sec
    ELSE ScanState(course_append(courses, courses[Len(courses)].number, sec.val), course)

\* course.append(PittSection(self, class_section_url=..., course=course,
\* class_data=...)): course.append is looked up on course before the section
\* is built
append_to_current(courses, course, sec) ==
    IF course = NoneVal
    THEN Raise("AttributeError", "'NoneType' object has no attribute 'append'")
    ELSE IF ~sec.ok THEN sec
    ELSE ScanState(course_append(courses, course.number, sec.val), course)

\* if number not in self._courses: self._courses[number] = PittCourse(...);
\* course = self._courses[number]
open_course(courses, number) ==
    IF ~number.ok THEN number
    ELSE ScanState(IF HasCourse(courses, number.val) THEN courses
                   ELSE Append(courses, [number |-> number.val, sections |-> <<>>]),
                   [number |-> number.val])

\* number, *_ = class_description.split(' - '); number = number.split(' ')[1]
description_number(class_description) ==
    index(split(split(class_description, " - ")[1], " "), 1)

\* The section of a link node: PittSection(..., class_section_url=child.attrs['href'],
\* class_data=child.text.strip().split('\n'))
link_section(child) ==
    IF "href" \notin child.attrs THEN Raise("KeyError", "'href'")
    ELSE PittSection(child.href, split(strip(child.text), "\n"), NoneVal)

\* A slip in the subject-level pass: a link node met while no course is
\* current is skipped
subject_step_skipping(courses, course, child) ==
    IF ~not_blank(child) \/ ~child.tag THEN ScanState(courses, course)
    ELSE IF "class" \notin child.attrs
    THEN IF "href" \notin child.attrs THEN Raise("KeyError", "'href'")
         ELSE IF course = NoneVal THEN ScanState(courses, course)
         ELSE append_to_current(courses, course, link_section(child))
    ELSE IF child.text # "" THEN open_course(courses, description_number(child.text))
    ELSE ScanState(courses, course)

\* One turn of the loop of PittSubject.parse_webpage, on `child`
subject_step(courses, course, child) ==
    IF ~not_blank(child) \/ ~child.tag THEN ScanState(courses, course)
    ELSE IF "class" \notin child.attrs
    THEN IF "href" \notin child.attrs THEN Raise("KeyError", "'href'")
         ELSE append_to_current(courses, course, link_section(child))
    ELSE IF child.text # "" THEN open_course(courses, description_number(child.text))
    ELSE ScanState(courses, course)

\* The loop of PittSubject.parse_webpage from child i on; a turn that raises
\* ends it
RECURSIVE subject_scan(_, _, _)
subject_scan(classes, i, st) ==
    IF ~st.ok \/ i > Len(classes) THEN st
    ELSE subject_scan(classes, i + 1,
                      subject_step(st.val.courses, st.val.course, classes[i]))

\* self._courses when the loop is over
courses_of(st) == IF st.ok THEN Ok(st.val.courses) ELSE st

\* PittSubject.parse_webpage(resp) on a new PittSubject: its _courses
subject_parse_webpage(doc) ==
    IF ~contents_of(doc).ok THEN contents_of(doc)
    ELSE courses_of(subject_scan(doc, 1, ScanState(<<>>, NoneVal)))

\* self.append(PittSection(...)) in PittCourse.parse_webpage
append_to_sections(sections, sec) ==
    IF ~sec.ok THEN sec ELSE Ok(Append(sections, sec.val))

\* One turn of the loop of PittCourse.parse_webpage, on `child`
course_step(sections, child) ==
    IF not_blank(child) /\ child.tag /\ "class" \notin child.attrs
    THEN append_to_sections(sections, link_section(child))
    ELSE Ok(sections)

\* The loop of PittCourse.parse_webpage from child i on: self.sections
RECURSIVE course_scan(_, _, _)
course_scan(classes, i, st) ==
    IF ~st.ok \/ i > Len(classes) THEN st
    ELSE course_scan(classes, i + 1, course_step(st.val, classes[i]))

\* PittCourse.parse_webpage(resp) on a new PittCourse: its sections
course_parse_webpage(doc) ==
    IF ~contents_of(doc).ok THEN contents_of(doc)
    ELSE course_scan(doc, 1, Ok(<<>>))

\* self.url = child.attrs['href'], then the fields of the record, set on self
set_fields(self, child, f) ==
    IF ~f.ok THEN f ELSE Ok([self EXCEPT !.url = child.href, !.fields = f.val])

\* subject, number = data.split(' '); self._subject = subject;
\* self._course_number = number
set_back_reference(self, data) ==
    IF ~data.ok THEN data
    ELSE Ok([self EXCEPT !._subject = [str |-> data.val[1]],
                         !._course_number = [str |-> data.val[2]]])

\* One turn of the loop of PittSection.parse_webpage, on `child`: nothing
\* ends the loop at a link node
section_step(self, child) ==
    IF ~(not_blank(child) /\ child.tag) THEN Ok(self)
    ELSE IF "class" \notin child.attrs
    THEN IF "href" \notin child.attrs THEN Raise("KeyError", "'href'")
         ELSE set_fields(self, child, section_fields(split(strip(child.text), "\n")))
    ELSE IF child.text # ""
    THEN set_back_reference(self, unpack2(split(split(child.text, " - ")[1], " ")))
    ELSE Ok(self)

\* The loop of PittSection.parse_webpage from child i on
RECURSIVE section_scan(_, _, _)
section_scan(classes, i, st) ==
    IF ~st.ok \/ i > Len(classes) THEN st
    ELSE section_scan(classes, i + 1, section_step(st.val, classes[i]))

\* PittSection(parent=None, course=None, class_section_url='', class_data=None,
\*             term=term): no field of the record is set
EmptySection ==
    [fields |-> NoneVal, url |-> "", _extra |-> NoneVal,
     _subject |-> NoneVal, _course_number |-> NoneVal]

\* PittSection.parse_webpage(resp) on the section get_section_details creates
section_parse_webpage(doc) ==
    IF ~contents_of(doc).ok THEN contents_of(doc)
    ELSE section_scan(doc, 1, Ok(EmptySection))

\* PittSubject.__getitem__(item): a key that is no str falls through every
\* branch and the method returns None
getitem(courses, item) ==
    IF IsStr(item)
    THEN LET v == _validate_course(item)
         IN  IF ~v.ok THEN v
             ELSE IF HasCourse(courses, v.val)
             THEN Ok(courses[CourseAt(courses, v.val)])
             ELSE Raise("ValueError", "Course not present in subject")
    ELSE Ok(NoneVal)

----------------------------------------------------------------------------
(* The extra details of a section.  `env` is what the GET of the section's  *)
(* url answers: whether it succeeds, and the page: whether it holds the     *)
(* section-content div and the blocks that follow it.                       *)

\* extract_data = lambda x: x.find('div', {'class': 'pull-right'})
\*                           .next_element.next_element.next_element
extract_data(x) ==
    IF ~x.ok THEN x
    ELSE IF ~x.val.pull
    THEN Raise("AttributeError", "'NoneType' object has no attribute 'next_element'")
    ELSE Ok(x.val.value)

\* extract(extract_data(data[5]))
extract_preq(x) == IF x.ok THEN extract(x.val) ELSE x

\* self._extra = {'units': ..., 'description': ..., 'preq': ...}: the values
\* are computed in this order before the assignment
extra_dict(units, description, preq) ==
    IF ~units.ok THEN units
    ELSE IF ~description.ok THEN description
    ELSE IF ~preq.ok THEN preq
    ELSE Ok([units |-> units.val, description |-> description.val, preq |-> preq.val])

\* if 'Class Attributes' in data[6].text:
\*     self._extra['class_attributes'] = extract_data(data[6])
\* self._extra is set by now, whatever these lines raise
with_class_attributes(self, extra, data, issued) ==
    IF Len(data) < 7
    THEN [ret |-> Raise("IndexError", "list index out of range"),
          self |-> [self EXCEPT !._extra = extra], net |-> issued]
    ELSE IF find(data[7].text, "Class Attributes", 1) = 0
    THEN [ret |-> Ok(extra), self |-> [self EXCEPT !._extra = extra], net |-> issued]
    ELSE IF ~extract_data(Ok(data[7])).ok
    THEN [ret |-> extract_data(Ok(data[7])),
          self |-> [self EXCEPT !._extra = extra], net |-> issued]
    ELSE [ret |-> Ok([units |-> extra.units, description |-> extra.description,
                      preq |-> extra.preq, class_attributes |-> data[7].value]),
          self |-> [self EXCEPT !._extra =
                       [units |-> extra.units, description |-> extra.description,
                        preq |-> extra.preq, class_attributes |-> data[7].value]],
          net |-> issued]

\* The assignment of self._extra and what follows it
store_extra(self, extra, data, issued) ==
    IF ~extra.ok THEN [ret |-> extra, self |-> self, net |-> issued]
    ELSE with_class_attributes(self, extra.val, data, issued)

\* resp = requests.get(self.url) and the parse of the page
fetch_extra(self, env) ==
    IF ~env.get
    THEN [ret |-> Raise("ConnectionError", "GET"), self |-> self, net |-> <<"GET">>]
    ELSE IF ~env.page.found
    THEN [ret |-> Raise("AttributeError", "'NoneType' object has no attribute 'next_siblings'"),
          self |-> self, net |-> <<"GET">>]
    ELSE store_extra(self,
                     extra_dict(extract_data(index(env.page.data, 2)),
                                extract_data(index(env.page.data, 4)),
                                extract_preq(extract_data(index(env.page.data, 5)))),
                     env.page.data, <<"GET">>)

\* A slip in PittSection.extra_details: the cache is not consulted
extra_details_uncached(self, env) == fetch_extra(self, env)

\* PittSection.extra_details: the outcome, the section afterwards and the
\* requests issued
extra_details(self, env) ==
    IF self._extra # NoneVal THEN [ret |-> Ok(self._extra), self |-> self, net |-> <<>>]
    ELSE fetch_extra(self, env)

\* data['extra'] = self.extra_details
dict_with_extra(self, r) ==
    IF ~r.ret.ok THEN r
    ELSE [ret |-> Ok([data |-> self.fields, extra |-> r.ret.val]),
          self |-> r.self, net |-> r.net]

\* PittSection.to_dict(extra_details): the fields are read first, and a
\* section no record was parsed into has none
to_dict(self, with_extra, env) ==
    IF self.fields = NoneVal
    THEN [ret |-> Raise("AttributeError", "'PittSection' object has no attribute 'days'"),
          self |-> self, net |-> <<>>]
    ELSE IF with_extra THEN dict_with_extra(self, extra_details(self, env))
    ELSE [ret |-> Ok([data |-> self.fields]), self |-> self, net |-> <<>>]

----------------------------------------------------------------------------
(* The query functions.  `env` is what the network answers: whether the GET *)
(* and the POST succeed, whether the GET sets the CSRF cookie, and the page *)
(* the POST returns.  Each yields its outcome and the requests it issued.   *)

\* _get_payload(term, ...): the GET of the search page, then the cookie
_get_payload(env) ==
    IF ~env.get THEN [ret |-> Raise("ConnectionError", "GET"), net |-> <<"GET">>]
    ELSE IF ~env.cookie THEN [ret |-> Raise("KeyError", "'CSRFCookie'"), net |-> <<"GET">>]
    ELSE [ret |-> Ok("payload"), net |-> <<"GET">>]

\* session.post(CLASS_SEARCH_API_URL, data=payload)
post(env, issued) ==
    IF ~env.post
    THEN [ret |-> Raise("ConnectionError", "POST"), net |-> Append(issued, "POST")]
    ELSE [ret |-> Ok(env.doc), net |-> Append(issued, "POST")]

\* _get_payload and the POST, in this order
fetch(env) ==
    LET p == _get_payload(env)
    IN  IF ~p.ret.ok THEN p ELSE post(env, p.net)

\* container = PittSubject(subject=subject, term=term);
\* container.parse_webpage(response); return container
subject_container(subj, term, r) ==
    IF ~r.ret.ok THEN r
    ELSE IF ~subject_parse_webpage(r.ret.val).ok
    THEN [ret |-> subject_parse_webpage(r.ret.val), net |-> r.net]
    ELSE [ret |-> Ok([subject |-> subj, term |-> term,
                      _courses |-> subject_parse_webpage(r.ret.val).val]),
          net |-> r.net]

\* A slip in get_term_courses: the session is opened before the subject is
\* validated
get_term_courses_payload_first(term, subj, env) ==
    LET t == _validate_term(term)
        s == _validate_subject(subj)
    IN  IF ~t.ok THEN [ret |-> t, net |-> <<>>]
        ELSE IF ~_get_payload(env).ret.ok THEN _get_payload(env)
        ELSE IF ~s.ok THEN [ret |-> s, net |-> _get_payload(env).net]
        ELSE subject_container(s.val, t.val, fetch(env))

\* get_term_courses(term, subject)
get_term_courses(term, subj, env) ==
    LET t == _validate_term(term)
        s == _validate_subject(subj)
    IN  IF ~t.ok THEN [ret |-> t, net |-> <<>>]
        ELSE IF ~s.ok THEN [ret |-> s, net |-> <<>>]
        ELSE subject_container(s.val, t.val, fetch(env))

\* container = PittCourse(parent=None, course_number=course, term=term,
\* subject=subject); container.parse_webpage(response); return container
course_container(subj, term, course, r) ==
    IF ~r.ret.ok THEN r
    ELSE IF ~course_parse_webpage(r.ret.val).ok
    THEN [ret |-> course_parse_webpage(r.ret.val), net |-> r.net]
    ELSE [ret |-> Ok([subject |-> subj, term |-> term, number |-> course,
                      sections |-> course_parse_webpage(r.ret.val).val]),
          net |-> r.net]

\* get_course_sections(term, subject, course)
get_course_sections(term, subj, course, env) ==
    LET t == _validate_term(term)
        s == _validate_subject(subj)
        n == _validate_course(course)
    IN  IF ~t.ok THEN [ret |-> t, net |-> <<>>]
        ELSE IF ~s.ok THEN [ret |-> s, net |-> <<>>]
        ELSE IF ~n.ok THEN [ret |-> n, net |-> <<>>]
        ELSE course_container(s.val, t.val, n.val, fetch(env))

\* container = PittSection(parent=None, ...); container.parse_webpage(response);
\* return container
section_container(r) ==
    IF ~r.ret.ok THEN r ELSE [ret |-> section_parse_webpage(r.ret.val), net |-> r.net]

\* get_section_details(term, section_number): the section number, an int or
\* a str, only goes into the payload, which the answer `env` stands for
get_section_details(term, section_number, env) ==
    LET t == _validate_term(term)
    IN  IF ~t.ok THEN [ret |-> t, net |-> <<>>]
        ELSE section_container(fetch(env))

----------------------------------------------------------------------------
(* Inputs *)

\* The strings of length n over the characters cs
RECURSIVE StrsOfLen(_, _)
StrsOfLen(cs, n) ==
    IF n = 0 THEN {""} ELSE {s \o c : s \in StrsOfLen(cs, n - 1), c \in cs}

StrsUpTo(cs, n) == UNION {StrsOfLen(cs, k) : k \in 0..n}

TermChars == {"2", "1", "7", "5", "x"}
TermStrs == StrsUpTo(TermChars, MaxTermLen)
CourseChars == {"0", "1", "5", "A"}
CourseStrs == StrsUpTo(CourseChars, MaxCourseLen)
IntInputs == (-12) .. MaxInt
SubjectStrs == {"CS", "cs", "Math", "MATH", "XX", "", "C S", "cs1"}

\* The text of a link node: six lines, each a label and a value
LinkText(l0, days_times, room, instructor, dates) ==
    "\n" \o l0 \o "\nSession: Academic Term\nDays/Times: " \o days_times
    \o "\nRoom: " \o room \o "\nInstructor: " \o instructor
    \o "\nMeeting Dates: " \o dates \o "\n"

Line0s == {"Section: 1010-LEC (12345)", "Section: 1200-REC (23456)",
           "Section: 1010 (12345)", "1010-LEC (12345)", "Section: 1010-LEC"}
DaysTimes == {"MoWe 2:00PM - 3:15PM", "MW 2:00PM - 3:15PM", "MW2:00PM - 3:15PM",
              "TBA", "TuThF 9:00AM - 9:50AM", "Mo 2:00PM",
              "MoWeFr 11:00AM - 11:50AM", "Mo We 2:00PM - 3:15PM"}
Rooms == {"5502 SENSQ", "TBA"}
Instructors == {"J Doe", "Staff"}
Dates == {"08/27/2018 - 12/07/2018", "1/7/2019 - 4/20/2019", "02/30/2018 - 12/07/2018",
          "08/27/2018", "08/27/18 - 12/07/18", "02/29/2020 - 4/ 5/2020"}

LinkTexts ==
    {LinkText(l0, dt, r, i, d) :
        l0 \in Line0s, dt \in DaysTimes, r \in Rooms, i \in Instructors, d \in Dates}
    \cup {"Section: 1010-LEC (12345)\nSession: Academic Term", ""}

Hrefs == {"/app/catalog/classsection/UPITT/2191/12345"}

\* The nodes of the pages: two course headers, two sections, and the shapes
\* the passes skip or fail on
DescA == ClassTag("primary-head", "CS 0401 - INTRMD PROGRAMMING")
DescB == ClassTag("primary-head", "CS 445 - DATA STRUCTURES")
DescNoSpace == ClassTag("primary-head", "Results")
Body == ClassTag("section-body", "")
Newline == TextNode("\n")
LinkA ==
    LinkTag("/app/catalog/classsection/UPITT/2191/12345",
            LinkText("Section: 1010-LEC (12345)", "MoWe 2:00PM - 3:15PM", "5502 SENSQ",
                     "J Doe", "1/7/2019 - 4/20/2019"))
LinkB ==
    LinkTag("/app/catalog/classsection/UPITT/2191/23456",
            LinkText("Section: 1200-REC (23456)", "TBA", "TBA", "Staff",
                     "1/7/2019 - 4/20/2019"))
LinkNoHref == BareTag("Section: 1010-LEC (12345)")

CoreNodes == {DescA, DescB, LinkA, LinkB}
OddNodes == {DescA, LinkA, LinkB, Body, Newline, LinkNoHref, DescNoSpace}

SeqsUpTo(S, n) == UNION {[1..k -> S] : k \in 0..n}
OddDocs == SeqsUpTo(OddNodes, MaxOddNodes)
Docs == SeqsUpTo(CoreNodes, MaxNodes) \cup OddDocs

\* What the network may answer: a failed GET, a GET without the cookie, a
\* failed POST, or a page
NetFailures ==
    {[get |-> FALSE, cookie |-> FALSE, post |-> FALSE, doc |-> <<>>],
     [get |-> TRUE, cookie |-> FALSE, post |-> FALSE, doc |-> <<>>],
     [get |-> TRUE, cookie |-> TRUE, post |-> FALSE, doc |-> <<>>]}
Envs(docs) ==
    NetFailures \cup {[get |-> TRUE, cookie |-> TRUE, post |-> TRUE, doc |-> d] : d \in docs}

QueryTerms == {StrArg("2191"), IntArg(2194), StrArg("219"), IntArg(12)}
QuerySubjects == {"cs", "XX"}
QueryCourses == {StrArg("401"), IntArg(401), StrArg("04011"), IntArg(10401)}
QuerySections == {StrArg("12345"), IntArg(12345)}
LookupItems ==
    {StrArg("0401"), StrArg("401"), StrArg("445"), StrArg("0445"), StrArg("9999"),
     StrArg("04011"), IntArg(401), IntArg(445), IntArg(9999)}

\* The blocks that follow the section-content div of a detail page
Block(pull, value, text) == [pull |-> pull, value |-> value, text |-> text]
DetailBlocks(units, preq, attributes) ==
    <<Block(TRUE, "Open", "Status Open"),
      Block(TRUE, "Lecture", "Component Lecture"),
      units,
      Block(TRUE, "Graded", "Grading Graded"),
      Block(TRUE, "An intermediate course.", "Description An intermediate course."),
      preq,
      attributes,
      Block(FALSE, "", "Class Availability")>>
UnitsBlocks == {Block(TRUE, "3 units", "Units 3 units"), Block(FALSE, "", "Units")}
PreqBlocks ==
    {Block(TRUE, "Enrollment Requirements: PREQ: CS 0007", "Enrollment Requirements"),
     Block(TRUE, "CS 0007", "Enrollment Requirements")}
AttributeBlocks ==
    {Block(TRUE, "Q", "Class Attributes Q"),
     Block(FALSE, "", "Class Attributes"),
     Block(TRUE, "Textbooks", "Textbooks")}
DetailPages ==
    {[found |-> TRUE, data |-> SubSeq(DetailBlocks(u, q, a), 1, n)] :
        u \in UnitsBlocks, q \in PreqBlocks, a \in AttributeBlocks, n \in 0..8}
    \cup {[found |-> FALSE, data |-> <<>>]}
ExtraEnvs ==
    {[get |-> TRUE, page |-> pg] : pg \in DetailPages}
    \cup {[get |-> FALSE, page |-> [found |-> FALSE, data |-> <<>>]]}

\* The extra mapping a section may be constructed with: none, an empty one,
\* a filled one
Extras == {NoneVal, <<>>, [units |-> "1 units", description |-> "A seminar.", preq |-> "none"]}

----------------------------------------------------------------------------
(* The validators, each called once on an input of the bounded sets *)

Init ==
    /\ fn = "init"
    /\ arg = NoneVal
    /\ ret = NoneVal
    /\ net = <<>>
    /\ subject = NoneVal
    /\ section = NoneVal
    /\ calls = 0

CallValidateTerm(term) ==
    /\ fn' = "_validate_term"
    /\ arg' = term
    /\ ret' = _validate_term(term)
    /\ UNCHANGED <<net, subject, section>>
    /\ calls' = calls + 1

CallValidateCourse(course) ==
    /\ fn' = "_validate_course"
    /\ arg' = course
    /\ ret' = _validate_course(course)
    /\ UNCHANGED <<net, subject, section>>
    /\ calls' = calls + 1

CallValidateSubject(s) ==
    /\ fn' = "_validate_subject"
    /\ arg' = StrArg(s)
    /\ ret' = _validate_subject(s)
    /\ UNCHANGED <<net, subject, section>>
    /\ calls' = calls + 1

ValidateTermStr == fn = "init" /\ \E s \in TermStrs : CallValidateTerm(StrArg(s))
ValidateTermInt == fn = "init" /\ \E n \in IntInputs : CallValidateTerm(IntArg(n))
ValidateCourseStr == fn = "init" /\ \E s \in CourseStrs : CallValidateCourse(StrArg(s))
ValidateCourseInt == fn = "init" /\ \E n \in IntInputs : CallValidateCourse(IntArg(n))
ValidateSubject == fn = "init" /\ \E s \in SubjectStrs : CallValidateSubject(s)

NextV ==
    \/ ValidateTermStr
    \/ ValidateTermInt
    \/ ValidateCourseStr
    \/ ValidateCourseInt
    \/ ValidateSubject

SpecV == Init /\ [][NextV]_vars

----------------------------------------------------------------------------
(* A section built from the text of one link node *)

\* PittSection(parent, course=course, class_section_url=child.attrs['href'],
\*             class_data=child.text.strip().split('\n'))
NewSection(href, text) ==
    \E class_data \in {split(strip(text), "\n")} :
    \E s \in {PittSection(href, class_data, NoneVal)} :
        /\ fn' = "PittSection"
        /\ arg' = class_data
        /\ ret' = s
        /\ section' = IF s.ok THEN s.val ELSE section
        /\ calls' = calls + 1
        /\ UNCHANGED <<net, subject>>

ConstructSection ==
    fn = "init" /\ \E href \in Hrefs : \E text \in LinkTexts : NewSection(href, text)

NextS == ConstructSection

SpecS == Init /\ [][NextS]_vars

----------------------------------------------------------------------------
(* The query functions, each called once, and a lookup on the subject held *)

GetTermCourses ==
    /\ fn = "init"
    /\ \E term \in QueryTerms : \E subj \in QuerySubjects : \E env \in Envs(Docs) :
        \E r \in {get_term_courses(term, subj, env)} :
            /\ fn' = "get_term_courses"
            /\ arg' = [term |-> term, subject |-> subj, env |-> env]
            /\ ret' = r.ret
            /\ net' = net \o r.net
            /\ subject' = IF r.ret.ok THEN r.ret.val ELSE subject
            /\ calls' = calls + 1
            /\ UNCHANGED section

GetCourseSections ==
    /\ fn = "init"
    /\ \E term \in QueryTerms : \E subj \in QuerySubjects : \E course \in QueryCourses :
       \E env \in Envs(OddDocs) :
        \E r \in {get_course_sections(term, subj, course, env)} :
            /\ fn' = "get_course_sections"
            /\ arg' = [term |-> term, subject |-> subj, course |-> course, env |-> env]
            /\ ret' = r.ret
            /\ net' = net \o r.net
            /\ calls' = calls + 1
            /\ UNCHANGED <<subject, section>>

GetSectionDetails ==
    /\ fn = "init"
    /\ \E term \in QueryTerms : \E section_number \in QuerySections :
       \E env \in Envs(OddDocs) :
        \E r \in {get_section_details(term, section_number, env)} :
            /\ fn' = "get_section_details"
            /\ arg' = [term |-> term, section_number |-> section_number, env |-> env]
            /\ ret' = r.ret
            /\ net' = net \o r.net
            /\ section' = IF r.ret.ok THEN r.ret.val ELSE section
            /\ calls' = calls + 1
            /\ UNCHANGED subject

\* subject[item] on the PittSubject get_term_courses returned
Lookup ==
    /\ fn = "get_term_courses"
    /\ ret.ok
    /\ \E item \in LookupItems :
        /\ fn' = "__getitem__"
        /\ arg' = item
        /\ ret' = getitem(subject._courses, item)
        /\ calls' = calls + 1
        /\ UNCHANGED <<net, subject, section>>

NextQ ==
    \/ GetTermCourses
    \/ GetCourseSections
    \/ GetSectionDetails
    \/ Lookup

SpecQ == Init /\ [][NextQ]_vars

----------------------------------------------------------------------------
(* A section and the successive reads of its extra details *)

\* PittSection(..., class_data=..., extra=extra)
ConstructWithExtra ==
    /\ fn = "init"
    /\ \E node \in {LinkA, LinkB} : \E extra \in Extras :
       \E s \in {PittSection(node.href, split(strip(node.text), "\n"), extra)} :
        /\ fn' = "PittSection"
        /\ arg' = extra
        /\ ret' = s
        /\ section' = s.val
        /\ calls' = calls + 1
        /\ UNCHANGED <<net, subject>>

\* section.extra_details
ReadExtraDetails ==
    /\ section # NoneVal
    /\ calls <= MaxAccesses
    /\ \E env \in ExtraEnvs : \E r \in {extra_details(section, env)} :
        /\ fn' = "extra_details"
        /\ arg' = env.get
        /\ ret' = r.ret
        /\ section' = r.self
        /\ net' = net \o r.net
        /\ calls' = calls + 1
        /\ UNCHANGED subject

\* section.to_dict(extra_details=with_extra)
ToDict ==
    /\ section # NoneVal
    /\ calls <= MaxAccesses
    /\ \E with_extra \in BOOLEAN : \E env \in ExtraEnvs :
       \E r \in {to_dict(section, with_extra, env)} :
        /\ fn' = "to_dict"
        /\ arg' = with_extra
        /\ ret' = r.ret
        /\ section' = r.self
        /\ net' = net \o r.net
        /\ calls' = calls + 1
        /\ UNCHANGED subject

NextX ==
    \/ ConstructWithExtra
    \/ ReadExtraDetails
    \/ ToDict

SpecX == Init /\ [][NextX]_vars

----------------------------------------------------------------------------
(* The claims *)

TermOf(x) == IF IsInt(x) THEN str(x.int) ELSE x.str

QueryFns == {"get_term_courses", "get_course_sections", "get_section_details"}

\* The call is one of the query functions and a validator rejects one of the
\* arguments it validates
InvalidArgument ==
    /\ fn \in QueryFns
    /\ \/ ~_validate_term(arg.term).ok
       \/ fn # "get_section_details" /\ ~_validate_subject(arg.subject).ok
       \/ fn = "get_course_sections" /\ ~_validate_course(arg.course).ok

\* C1: in get_term_courses, get_course_sections and get_section_details, when a
\* validated argument (term, subject, course number) is invalid the call
\* fails with the validator's ValueError and has issued no GET and no POST.
C1_ValidationBeforeNetwork ==
    InvalidArgument => ~ret.ok /\ ret.err = "ValueError" /\ net = <<>>

\* A call of get_course_sections with a valid term, a valid subject and an
\* invalid course, on a network that would have answered
C1_Witness ==
    /\ fn = "get_course_sections"
    /\ _validate_term(arg.term).ok
    /\ _validate_subject(arg.subject).ok
    /\ ~_validate_course(arg.course).ok
    /\ arg.env.get /\ arg.env.post
    /\ ~ret.ok
    /\ net = <<>>

\* A term code: '2', two digits, one digit of {1, 4, 7}, and nothing more
IsTermCode(t) ==
    /\ Len(t) = 4
    /\ Char(t, 1) = "2"
    /\ IsDigit(Char(t, 2))
    /\ IsDigit(Char(t, 3))
    /\ Char(t, 4) \in {"1", "4", "7"}

\* C2: _validate_term returns its input unchanged, as a string, for every
\* 4-character term code ('2', two digits, a digit of {1, 4, 7}) and fails
\* with the invalid-term error for every other input, among them the longer
\* strings that begin with a term code.
C2_ValidateTermExact ==
    fn = "_validate_term" =>
        IF IsTermCode(TermOf(arg)) THEN ret = Ok(TermOf(arg))
        ELSE ~ret.ok /\ ret.msg = "Term entered isn't a valid Pitt term."

\* C3: after a subject-level parse every key of the subject's course mapping
\* is 4 characters long, so that subject[number], for the number of a course
\* the parse created as the description node gave it, returns that course.
C3_KeysPaddedAndFound ==
    /\ (fn = "get_term_courses" /\ ret.ok) =>
           \A k \in 1..Len(subject._courses) : Len(subject._courses[k].number) = 4
    /\ (fn = "__getitem__" /\ IsStr(arg) /\ HasCourse(subject._courses, arg.str)) =>
           ret = Ok(subject._courses[CourseAt(subject._courses, arg.str)])

\* The shapes of a child, as the subject-level pass tells them apart
IsDescription(n) == n.tag /\ "class" \in n.attrs /\ n.text # ""
IsLink(n) == n.tag /\ "class" \notin n.attrs
WellFormed(n) ==
    \/ ~n.tag
    \/ "class" \in n.attrs /\ n.text = ""
    \/ IsDescription(n) /\ description_number(n.text).ok
    \/ IsLink(n) /\ link_section(n).ok

\* get_term_courses got as far as the parse of the page
ParsedPage ==
    /\ fn = "get_term_courses"
    /\ _validate_term(arg.term).ok
    /\ _validate_subject(arg.subject).ok
    /\ arg.env.get /\ arg.env.cookie /\ arg.env.post

\* The description node that opened the course current at child i
Opener(doc, i) ==
    CHOOSE j \in 1..(i - 1) :
        /\ IsDescription(doc[j])
        /\ \A l \in (j + 1)..(i - 1) : ~IsDescription(doc[l])
NumberAt(doc, j) == description_number(doc[j].text).val

\* The link nodes between the description nodes of `number` and the next ones
LinksOf(doc, number) ==
    {i \in 1..Len(doc) : IsLink(doc[i]) /\ NumberAt(doc, Opener(doc, i)) = number}
FirstAt(doc, number) ==
    CHOOSE j \in 1..Len(doc) :
        /\ IsDescription(doc[j]) /\ NumberAt(doc, j) = number
        /\ \A l \in 1..(j - 1) : ~(IsDescription(doc[l]) /\ NumberAt(doc, l) = number)

\* The elements of a set of numbers in ascending order
RECURSIVE Ascending(_)
Ascending(S) ==
    IF S = {} THEN <<>>
    ELSE LET m == CHOOSE x \in S : \A y \in S : x <= y
         IN  <<m>> \o Ascending(S \ {m})

SectionsOf(doc, number) ==
    [k \in 1..Cardinality(LinksOf(doc, number)) |->
        link_section(doc[Ascending(LinksOf(doc, number))[k]]).val]

\* C4: in the subject-level pass over children that start with a description
\* node (a non-empty one whose text holds a number, every later child being
\* of a shape the pass handles), the courses are the numbers of the
\* description nodes, each created once, in the order they first appear, and
\* the sections of each course are exactly the link nodes whose nearest
\* preceding description node has its number, in document order.
C4_SectionsGroupedUnderCurrentCourse ==
    \A doc \in {IF ParsedPage THEN arg.env.doc ELSE <<>>} :
        (/\ ParsedPage
         /\ Len(doc) > 0
         /\ IsDescription(doc[1])
         /\ \A i \in 1..Len(doc) : WellFormed(doc[i]))
        => /\ ret.ok
           /\ \A k, l \in 1..Len(ret.val._courses) :
                  k < l => /\ ret.val._courses[k].number # ret.val._courses[l].number
                           /\ FirstAt(doc, ret.val._courses[k].number)
                                < FirstAt(doc, ret.val._courses[l].number)
           /\ {ret.val._courses[k].number : k \in 1..Len(ret.val._courses)}
                = {NumberAt(doc, j) : j \in {i \in 1..Len(doc) : IsDescription(doc[i])}}
           /\ \A k \in 1..Len(ret.val._courses) :
                  ret.val._courses[k].sections = SectionsOf(doc, ret.val._courses[k].number)

\* The page of two description nodes followed by two and by one link node:
\* two courses, of two and of one section
C4_Witness ==
    /\ ParsedPage
    /\ arg.env.doc = <<DescA, LinkA, LinkB, DescB, LinkB>>
    /\ ret.ok
    /\ Len(ret.val._courses) = 2
    /\ Len(ret.val._courses[1].sections) = 2
    /\ Len(ret.val._courses[2].sections) = 1

\* C5 as stated: at most one network GET is ever issued for a section,
\* however many times its extra details are read.
C5_AtMostOneGet == section # NoneVal => Len(net) <= 1

\* C5, amended: a read that finds the cache filled issues no GET, leaves the
\* cache as it is and returns the cached mapping; a read that finds it empty
\* issues exactly one GET.  So a section constructed with an extra mapping
\* issues none, and only reads that left the cache empty are followed by
\* another GET.
C5_CacheHitIssuesNoGet ==
    [][(section # NoneVal /\ fn' \in {"extra_details", "to_dict"}) =>
          IF section._extra # NoneVal
          THEN /\ net' = net
               /\ section'._extra = section._extra
               /\ (fn' = "extra_details" => ret' = Ok(section._extra))
          ELSE Len(net') <= Len(net) + 1
               /\ (fn' = "extra_details" => Len(net') = Len(net) + 1)]_vars

\* A read of the extra details, after the read that fetched them, at a time
\* the network is down: it returns the cache, and one GET was issued in all
C5_Witness ==
    /\ fn = "extra_details"
    /\ arg = FALSE
    /\ calls = 3
    /\ Len(net) = 1
    /\ ret.ok
    /\ ret.val = section._extra
    /\ "class_attributes" \in DOMAIN section._extra

\* C6 as stated: the record whose days/times field is "MW2:00PM - 3:15PM"
\* yields days == ["M", "W"] and times == ["2:00PM", "3:15PM"].
C6_SingleLetterDays ==
    (fn = "PittSection" /\ Len(arg) = 6 /\ arg[3] = "Days/Times: MW2:00PM - 3:15PM"
     /\ section_fields([arg EXCEPT ![3] = "Days/Times: TBA"]).ok)
    => /\ ret.ok
       /\ ret.val.fields.days = <<"M", "W">>
       /\ ret.val.fields.times = <<"2:00PM", "3:15PM">>

\* C6, amended: the record whose days/times field is "MW 2:00PM - 3:15PM", a
\* space between the day string and the start time, yields days == ["MW"],
\* the day string cut into chunks of two characters, and times ==
\* ["2:00PM", "3:15PM"]; the field "MW2:00PM - 3:15PM", without the space,
\* makes the constructor raise ValueError.
C6_TwoCharacterDays ==
    (fn = "PittSection" /\ Len(arg) = 6
     /\ section_fields([arg EXCEPT ![3] = "Days/Times: TBA"]).ok)
    => /\ arg[3] = "Days/Times: MW 2:00PM - 3:15PM" =>
              /\ ret.ok
              /\ ret.val.fields.days = <<"MW">>
              /\ ret.val.fields.times = <<"2:00PM", "3:15PM">>
       /\ arg[3] = "Days/Times: MW2:00PM - 3:15PM" =>
              ~ret.ok /\ ret.err = "ValueError"

C6_Witness ==
    /\ fn = "PittSection"
    /\ Len(arg) = 6
    /\ arg[3] = "Days/Times: MW 2:00PM - 3:15PM"
    /\ ret.ok
    /\ ret.val.fields.days = <<"MW">>

\* C7: _validate_course returns, for an input of 1 to 4 characters (an int
\* taken as its decimal string), the 4-character string that is the input
\* left-padded with '0', and fails with the invalid-course-number error for
\* an input of more than 4 characters.
C7_ValidateCoursePads ==
    fn = "_validate_course" =>
        /\ Len(TermOf(arg)) \in 1..4 =>
              /\ ret.ok
              /\ Len(ret.val) = 4
              /\ SubSeq(ret.val, 5 - Len(TermOf(arg)), 4) = TermOf(arg)
              /\ \A i \in 1..(4 - Len(TermOf(arg))) : Char(ret.val, i) = "0"
        /\ Len(TermOf(arg)) > 4 =>
              ~ret.ok /\ ret.err = "ValueError" /\ ret.msg = "Invalid course number."

\* "5" -> "0005"
C7_Witness == fn = "_validate_course" /\ arg = StrArg("5") /\ ret = Ok("0005")

\* C8: subject[item] raises the course-not-found error whenever the course
\* number is not in the subject's mapping, whether the key is a str or an
\* int, and never returns a value that is no course, such as None.
C8_LookupRaisesOrReturnsCourse ==
    fn = "__getitem__" =>
        /\ ret.ok => \E k \in 1..Len(subject._courses) : ret.val = subject._courses[k]
        /\ (~_validate_course(arg).ok
            \/ ~HasCourse(subject._courses, _validate_course(arg).val)) => ~ret.ok

\* The first link node of a page
FirstLink(doc) ==
    doc[CHOOSE i \in 1..Len(doc) : IsLink(doc[i]) /\ \A j \in 1..(i - 1) : ~IsLink(doc[j])]

\* C9: the section-level pass stops at the first link node: the url and the
\* fields of the section returned are those of the first link node of the
\* page, and later link nodes do not change them.
C9_FirstLinkWins ==
    (fn = "get_section_details" /\ ret.ok
     /\ \E i \in 1..Len(arg.env.doc) : IsLink(arg.env.doc[i]))
    => /\ ret.val.url = FirstLink(arg.env.doc).href
       /\ Ok(ret.val.fields)
            = section_fields(split(strip(FirstLink(arg.env.doc).text), "\n"))

\* A link node comes before every non-empty description node
LinkBeforeDescription(doc) ==
    \E i \in 1..Len(doc) :
        IsLink(doc[i]) /\ \A j \in 1..(i - 1) : ~IsDescription(doc[j])

\* C10: when the subject-level pass meets a link node before any description
\* node, get_term_courses ends with an error and returns no PittSubject: the
\* link node is not skipped; and whatever error ends the pass, no subject,
\* partial or empty, is returned.
C10_LinkBeforeDescriptionRaises ==
    fn = "get_term_courses" =>
        /\ (ParsedPage /\ LinkBeforeDescription(arg.env.doc)) => ~ret.ok
        /\ ~ret.ok => subject = NoneVal

\* A page whose first child is a link node and whose second opens a course
C10_Witness ==
    /\ ParsedPage
    /\ arg.env.doc = <<LinkA, DescA, LinkB>>
    /\ ~ret.ok
    /\ ret.err = "AttributeError"
    /\ subject = NoneVal

====
